---- MODULE Spec2Model ----
(***************************************************************************)
(* NovaNews: the refresh scheduler and fetch cycle of App.tsx, the         *)
(* countdown and history confirmation of AgentPanel.tsx, and the response  *)
(* normalizer of services/geminiService.ts.                                *)
(*                                                                         *)
(* Time is in milliseconds, as Date.now() gives it.  React state updates   *)
(* made by one handler are committed together, and the effects whose       *)
(* dependencies changed run right after the commit: every action below is  *)
(* one handler (or callback) followed by that commit and those effects.    *)
(***************************************************************************)
EXTENDS Integers, Sequences, FiniteSets, TLC

\* ------------------------------------------------------------------ bounds
StartTime == 5000
StepMs == 1500
MaxAdvances == 2
MaxFetches == 2
MaxPending == 2
MaxConfirmTimers == 1
MaxHistoryClicks == 3
MaxPanelEvents == 1
MaxFragments == 3
LongWait == 7200000

\* ------------------------------------------------------- program constants
REFRESH_INTERVALS ==
    [manual |-> 0, rapid |-> 120000, hourly |-> 3600000, daily |-> 86400000]
RefreshModes == {"manual", "rapid", "hourly", "daily"}
DefaultRefreshMode == "daily"
CONFIRM_TIMEOUT == 4000
COUNTDOWN_PERIOD == 1000
HISTORY_LIMIT == 10
HISTORY_SHOWN == 6

InitialTopic == "hot-news-israel"
LogoTopic == "news"
\* one of the five trending topics stands for them all
TRENDING_TOPICS == {"ai"}
Topics == {InitialTopic, LogoTopic} \cup TRENDING_TOPICS

NoDate == -1
NoTimer == -1
NoError == ""
NoTopic == ""

VARIABLES
    articles,            \* App: useState<NewsArticle[]>
    agentState,          \* App: {isScanning, lastUpdated, statusMessage}
    error,               \* App: error banner message, NoError when null
    searchHistory,       \* App: string[]
    refreshMode,         \* App: RefreshMode
    currentTopic,        \* App: string
    nextRefreshTime,     \* App: number
    refreshTimers,       \* the live setInterval timers of the agent loop
    storage,             \* localStorage: novaNewsHistory, novaRefreshMode
    confirmHistoryTopic, \* AgentPanel: string | null
    isDeepSearch,        \* AgentPanel: boolean
    timeLeft,            \* AgentPanel: seconds shown in the countdown
    countdownDue,        \* AgentPanel: next firing of the 1 s countdown timer
    confirmTimeouts,     \* AgentPanel: the live setTimeout timers
    now,                 \* Date.now()
    pending,             \* collaborator requests that have not settled, oldest first
    reqCount,            \* requests started by the mount effect or by the user
    lastEvent,           \* the handler that produced this state
    lastSampleAt,        \* instant of the last countdown recomputation
    advances,            \* number of time steps taken
    panelEvents,         \* number of panel clicks that start no fetch
    response,            \* a collaborator response handed to the service functions
    result               \* what a service function made of it

vars == <<articles, agentState, error, searchHistory, refreshMode, currentTopic,
          nextRefreshTime, refreshTimers, storage, confirmHistoryTopic,
          isDeepSearch, timeLeft, countdownDue, confirmTimeouts, now, pending,
          reqCount, lastEvent, lastSampleAt, advances, panelEvents, response, result>>

\* ----------------------------------------------------------------- helpers
Max(a, b) == IF a >= b THEN a ELSE b
Min(a, b) == IF a <= b THEN a ELSE b

\* Math.ceil(a / d) for d > 0
Ceil(a, d) == -((-a) \div d)

RECURSIVE Filter(_, _)
\* prev.filter(t => t !== x)
Filter(s, x) ==
    IF s = <<>> THEN <<>>
    ELSE IF Head(s) = x THEN Filter(Tail(s), x)
    ELSE <<Head(s)>> \o Filter(Tail(s), x)

\* arr.slice(0, n)
Slice(s, n) == SubSeq(s, 1, Min(Len(s), n))

\* s without its k-th element
Without(s, k) == SubSeq(s, 1, k - 1) \o SubSeq(s, k + 1, Len(s))

\* What the last step was; loopRan tells whether the agent-loop effect ran in it
Event(name, arg) == [name |-> name, arg |-> arg, loopRan |-> FALSE]
\* ----------------------------------------------------------------------
\* Text and JSON values.  A text is a sequence of one-character strings.
\* Indices are 0-based as in the source: CharAt(s, i) is s[i], and
\* Substring(s, a, b) is s.substring(a, b).
\* ----------------------------------------------------------------------
CharAt(s, i) == s[i + 1]
Substring(s, a, b) == SubSeq(s, a + 1, b)
IsSpace(c) == c \in {" ", "\n", "\t", "\r"}
IsDigit(c) == c \in {"0", "1", "2", "3", "4", "5", "6", "7", "8", "9"}
IsHex(c) == IsDigit(c) \/ c \in {"a", "b", "c", "d", "e", "f", "A", "B", "C", "D", "E", "F"}
DigitVal(c) ==
    CASE c = "0" -> 0 [] c = "1" -> 1 [] c = "2" -> 2 [] c = "3" -> 3 [] c = "4" -> 4
      [] c = "5" -> 5 [] c = "6" -> 6 [] c = "7" -> 7 [] c = "8" -> 8 [] c = "9" -> 9

\* c.toLowerCase() on the letters of the language tag
Lower(c) ==
    CASE c = "J" -> "j" [] c = "S" -> "s" [] c = "O" -> "o" [] c = "N" -> "n"
      [] OTHER -> c

RECURSIVE SkipSpace(_, _)
\* index of the first non-space character at or after i (Len(s) if none)
SkipSpace(s, i) ==
    IF i < Len(s) /\ IsSpace(CharAt(s, i)) THEN SkipSpace(s, i + 1) ELSE i

RECURSIVE SkipSpaceBack(_, _)
\* least j <= i such that s[j..i) is all space
SkipSpaceBack(s, i) ==
    IF i > 0 /\ IsSpace(CharAt(s, i - 1)) THEN SkipSpaceBack(s, i - 1) ELSE i

\* String.prototype.trim
Trim(s) ==
    LET a == SkipSpace(s, 0)
        b == SkipSpaceBack(s, Len(s))
    IN IF a >= b THEN <<>> ELSE Substring(s, a, b)

\* whether the text t occurs in s at index i
OccursAt(s, t, i) ==
    /\ i >= 0
    /\ i + Len(t) <= Len(s)
    /\ \A k \in 1..Len(t) : s[i + k] = t[k]

\* the same, ignoring the case of s (the /i flag)
OccursAtCI(s, t, i) ==
    /\ i >= 0
    /\ i + Len(t) <= Len(s)
    /\ \A k \in 1..Len(t) : Lower(s[i + k]) = t[k]

\* s.indexOf(t, from): -1 when t does not occur at or after from
IndexOf(s, t, from) ==
    LET hits == {i \in Max(from, 0)..Len(s) : OccursAt(s, t, i)}
    IN IF hits = {} THEN -1 ELSE CHOOSE i \in hits : \A j \in hits : i <= j

\* s.lastIndexOf(t)
LastIndexOf(s, t) ==
    LET hits == {i \in 0..Len(s) : OccursAt(s, t, i)}
    IN IF hits = {} THEN -1 ELSE CHOOSE i \in hits : \A j \in hits : i >= j

\* the backquote character (the lexer admits none inside a string)
BQ == "BQ"
FENCE == <<BQ, BQ, BQ>>
JSON_TAG == <<"j", "s", "o", "n">>

\* ---------------------------------------------------------- JSON values
JsNull == [t |-> "null"]
Undefined == [t |-> "undefined"]
JsBool(b) == [t |-> "bool", b |-> b]
JsNum(n) == [t |-> "num", n |-> n]
JsStr(chars) == [t |-> "str", s |-> chars]
JsArr(items) == [t |-> "arr", items |-> items]
JsObj(keys, vals) == [t |-> "obj", keys |-> keys, vals |-> vals]
\* a string the program writes as a literal, kept as one token
Lit(tok) == JsStr(<<tok>>)

IsArray(v) == v.t = "arr"
IsObject(v) == v.t = "obj"

\* JavaScript truthiness
Truthy(v) ==
    CASE v.t = "null" -> FALSE
      [] v.t = "undefined" -> FALSE
      [] v.t = "bool" -> v.b
      [] v.t = "num" -> v.n # 0
      [] v.t = "str" -> v.s # <<>>
      [] OTHER -> TRUE

\* a || b
OrElse(a, b) == IF Truthy(a) THEN a ELSE b

KeyIndex(o, k) ==
    LET hits == {i \in 1..Len(o.keys) : o.keys[i] = k}
    IN IF hits = {} THEN 0 ELSE CHOOSE i \in hits : TRUE

\* o[k] for the property names the program reads; reading a property of
\* null or undefined throws, which the callers test with Nullish first
Get(o, k) ==
    IF IsObject(o) /\ KeyIndex(o, k) > 0 THEN o.vals[KeyIndex(o, k)] ELSE Undefined

Nullish(v) == v.t \in {"null", "undefined"}

\* o with o[k] = v : an existing key keeps its place
Put(o, k, v) ==
    IF KeyIndex(o, k) > 0
    THEN JsObj(o.keys, [o.vals EXCEPT ![KeyIndex(o, k)] = v])
    ELSE JsObj(Append(o.keys, k), Append(o.vals, v))
\* ------------------------------------------------------------ JSON.parse
\* A parse result: ok is FALSE where JSON.parse throws SyntaxError; i is the
\* index after the value read.  An element of a text that is not one of the
\* characters tested below (a run of letters such as "title") is ordinary
\* string content.  Number literals are integers: the texts of this model
\* hold no fraction and no exponent.
PFail == [ok |-> FALSE, v |-> JsNull, i |-> 0]
POk(v, i) == [ok |-> TRUE, v |-> v, i |-> i]

Unescape(e) ==
    CASE e = "n" -> "\n" [] e = "t" -> "\t" [] e = "r" -> "\r"
      [] e = "b" -> "<BS>" [] e = "f" -> "\f" [] OTHER -> e

RECURSIVE ParseStringBody(_, _, _)
\* the characters of a string literal, i being the index after its opening quote
ParseStringBody(s, i, acc) ==
    IF i >= Len(s) THEN PFail
    ELSE LET c == CharAt(s, i) IN
         IF c = "\"" THEN POk(JsStr(acc), i + 1)
         ELSE IF c = "\\" THEN
              IF i + 1 >= Len(s) THEN PFail
              ELSE LET e == CharAt(s, i + 1) IN
                   IF e \in {"\"", "\\", "/", "b", "f", "n", "r", "t"}
                   THEN ParseStringBody(s, i + 2, Append(acc, Unescape(e)))
                   ELSE IF /\ e = "u"
                           /\ i + 5 < Len(s)
                           /\ \A k \in 2..5 : IsHex(CharAt(s, i + k))
                   THEN ParseStringBody(s, i + 6, acc \o <<"\\u">> \o Substring(s, i + 2, i + 6))
                   ELSE PFail
         ELSE IF c \in {"\n", "\t", "\r"} THEN PFail
         ELSE ParseStringBody(s, i + 1, Append(acc, c))

RECURSIVE ParseDigits(_, _, _)
ParseDigits(s, i, n) ==
    IF i < Len(s) /\ IsDigit(CharAt(s, i))
    THEN ParseDigits(s, i + 1, 10 * n + DigitVal(CharAt(s, i)))
    ELSE POk(JsNum(n), i)

\* -? ( 0 | [1-9][0-9]* )
ParseNumber(s, i) ==
    LET neg == CharAt(s, i) = "-"
        j == IF neg THEN i + 1 ELSE i
    IN IF j >= Len(s) \/ ~IsDigit(CharAt(s, j)) THEN PFail
       ELSE LET r == IF CharAt(s, j) = "0" THEN POk(JsNum(0), j + 1)
                     ELSE ParseDigits(s, j, 0)
            IN POk(JsNum(IF neg THEN 0 - r.v.n ELSE r.v.n), r.i)

RECURSIVE ParseValue(_, _)
RECURSIVE ParseElements(_, _, _)
RECURSIVE ParseMembers(_, _, _)

\* value (, value)* ]
ParseElements(s, i, acc) ==
    LET r == ParseValue(s, i) IN
    IF ~r.ok THEN PFail
    ELSE LET j == SkipSpace(s, r.i) IN
         IF j >= Len(s) THEN PFail
         ELSE IF CharAt(s, j) = "," THEN ParseElements(s, j + 1, Append(acc, r.v))
         ELSE IF CharAt(s, j) = "]" THEN POk(JsArr(Append(acc, r.v)), j + 1)
         ELSE PFail

\* string : value (, string : value)* }
ParseMembers(s, i, o) ==
    LET j == SkipSpace(s, i) IN
    IF j >= Len(s) \/ CharAt(s, j) # "\"" THEN PFail
    ELSE LET k == ParseStringBody(s, j + 1, <<>>) IN
         IF ~k.ok THEN PFail
         ELSE LET c == SkipSpace(s, k.i) IN
              IF c >= Len(s) \/ CharAt(s, c) # ":" THEN PFail
              ELSE LET r == ParseValue(s, c + 1) IN
                   IF ~r.ok THEN PFail
                   ELSE LET d == SkipSpace(s, r.i) IN
                        IF d >= Len(s) THEN PFail
                        ELSE IF CharAt(s, d) = ","
                             THEN ParseMembers(s, d + 1, Put(o, k.v.s, r.v))
                        ELSE IF CharAt(s, d) = "}"
                             THEN POk(Put(o, k.v.s, r.v), d + 1)
                        ELSE PFail

ParseValue(s, i0) ==
    LET i == SkipSpace(s, i0) IN
    IF i >= Len(s) THEN PFail
    ELSE LET c == CharAt(s, i) IN
         IF c = "[" THEN
              LET j == SkipSpace(s, i + 1) IN
              IF j < Len(s) /\ CharAt(s, j) = "]" THEN POk(JsArr(<<>>), j + 1)
              ELSE ParseElements(s, j, <<>>)
         ELSE IF c = "{" THEN
              LET j == SkipSpace(s, i + 1) IN
              IF j < Len(s) /\ CharAt(s, j) = "}" THEN POk(JsObj(<<>>, <<>>), j + 1)
              ELSE ParseMembers(s, j, JsObj(<<>>, <<>>))
         ELSE IF c = "\"" THEN ParseStringBody(s, i + 1, <<>>)
         ELSE IF c = "-" \/ IsDigit(c) THEN ParseNumber(s, i)
         ELSE IF OccursAt(s, <<"n", "u", "l", "l">>, i) THEN POk(JsNull, i + 4)
         ELSE IF OccursAt(s, <<"t", "r", "u", "e">>, i) THEN POk(JsBool(TRUE), i + 4)
         ELSE IF OccursAt(s, <<"f", "a", "l", "s", "e">>, i) THEN POk(JsBool(FALSE), i + 5)
         ELSE PFail

\* JSON.parse(s): one value, then nothing but space
JSONparse(s) ==
    LET r == ParseValue(s, 0) IN
    IF r.ok /\ SkipSpace(s, r.i) = Len(s) THEN POk(r.v, Len(s)) ELSE PFail
\* ------------------------------------------------ extractJson (both files)
\* What a function body does: threw is TRUE where an exception leaves it.
Ret(v) == [threw |-> FALSE, v |-> v]
Threw == [threw |-> TRUE, v |-> Undefined]

\* try { return JSON.parse(s); } catch (e) {}   -- ok: the parse returned
Caught(r) == [threw |-> FALSE, ok |-> r.ok, v |-> r.v]
\* A JSON.parse outside any try block: the SyntaxError leaves the function
TryParse_uncaught(s) ==
    [threw |-> ~JSONparse(s).ok, ok |-> JSONparse(s).ok, v |-> JSONparse(s).v]

TryParse(s) == Caught(JSONparse(s))

\* an attempt whose condition is false
NotTried == [threw |-> FALSE, ok |-> FALSE, v |-> JsNull]

RECURSIVE FirstParsed(_)
\* the attempts in the order of the code: the first that parsed returns its
\* value, and null is returned when none did
FirstParsed(attempts) ==
    IF attempts = <<>> THEN Ret(JsNull)
    ELSE IF Head(attempts).threw THEN Threw
    ELSE IF Head(attempts).ok THEN Ret(Head(attempts).v)
    ELSE FirstParsed(Tail(attempts))

\* if (first !== -1 && last !== -1 && last > first)
\*     try { return JSON.parse(s.substring(first, last + 1)); } catch (e) {}
TryBetween(s, first, last) ==
    IF first # -1 /\ last # -1 /\ last > first
    THEN TryParse(Substring(s, first, last + 1))
    ELSE NotTried

\* the opening fence: /^```(?:json)?\s*/i
StripOpenFence(s) ==
    IF OccursAt(s, FENCE, 0)
    THEN Substring(s, SkipSpace(s, IF OccursAtCI(s, JSON_TAG, 3) THEN 7 ELSE 3), Len(s))
    ELSE s

\* the closing fence: /\s*```$/
StripCloseFence(s) ==
    IF Len(s) >= 3 /\ OccursAt(s, FENCE, Len(s) - 3)
    THEN Substring(s, 0, SkipSpaceBack(s, Len(s) - 3))
    ELSE s

\* the closing fence left in place
StripFence_openOnly(cleaned) == StripOpenFence(cleaned)

\* cleaned.replace(/^```(?:json)?\s*/i, "").replace(/\s*```$/, "")
StripFence(cleaned) == StripCloseFence(StripOpenFence(cleaned))

\* the three attempts on the cleaned text: direct, [ ... ], { ... }
Attempts(cleaned) ==
    << TryParse(cleaned),
       TryBetween(cleaned, IndexOf(cleaned, <<"[">>, 0), LastIndexOf(cleaned, <<"]">>)),
       TryBetween(cleaned, IndexOf(cleaned, <<"{">>, 0), LastIndexOf(cleaned, <<"}">>)) >>

\* services/geminiService.ts, the file with three parse attempts
extractJson(text) ==
    IF text = <<>> THEN Ret(JsNull)
    ELSE FirstParsed(Attempts(StripFence(Trim(text))))

MAX_OBJECTS == 50

\* cleanedText.match(/```(?:json)?\s*([\s\S]*?)\s*```/): the captured group,
\* or NoMatch.  The leftmost fence opens the block when another fence
\* follows it; the group starts at j2, after the tag and the space, and ends
\* before the space that precedes the next fence.
NoMatch == <<"<no match>">>
GroupFrom(s, j2) == Substring(s, j2, Max(j2, SkipSpaceBack(s, IndexOf(s, FENCE, j2))))
GroupOf(s, p0) ==
    IF p0 = -1 \/ IndexOf(s, FENCE, p0 + 3) = -1 THEN NoMatch
    ELSE GroupFrom(s, SkipSpace(s, IF OccursAt(s, JSON_TAG, p0 + 3) THEN p0 + 7 ELSE p0 + 3))
CodeBlockGroup(s) == GroupOf(s, IndexOf(s, FENCE, 0))

\* if (codeBlockMatch && codeBlockMatch[1]) cleanedText = codeBlockMatch[1].trim();
\* else cleanedText = cleanedText.replace(/^json\s*/i, '');
CleanWith(s, g) ==
    IF g # NoMatch /\ g # <<>> THEN Trim(g)
    ELSE IF OccursAtCI(s, JSON_TAG, 0)
         THEN Substring(s, SkipSpace(s, 4), Len(s))
         ELSE s

\* the pre-cleaning of the file with sequential extraction
PreClean(s) == CleanWith(s, CodeBlockGroup(s))

RECURSIVE ScanObject_countsAll(_, _, _, _, _)
\* a scan that counts every brace, those inside strings too
ScanObject_countsAll(s, endIndex, balance, inString, escape) ==
    IF endIndex < Len(s) /\ balance > 0
    THEN IF CharAt(s, endIndex) = "{"
         THEN ScanObject_countsAll(s, endIndex + 1, balance + 1, inString, FALSE)
         ELSE IF CharAt(s, endIndex) = "}"
              THEN ScanObject_countsAll(s, endIndex + 1, balance - 1, inString, FALSE)
         ELSE ScanObject_countsAll(s, endIndex + 1, balance, inString, FALSE)
    ELSE [balance |-> balance, endIndex |-> endIndex]

RECURSIVE ScanObject(_, _, _, _, _)
\* the inner while loop: scans from endIndex until balance reaches 0
ScanObject(s, endIndex, balance, inString, escape) ==
    IF endIndex < Len(s) /\ balance > 0
    THEN IF escape THEN ScanObject(s, endIndex + 1, balance, inString, FALSE)
         ELSE IF CharAt(s, endIndex) = "\\"
              THEN ScanObject(s, endIndex + 1, balance, inString, TRUE)
         ELSE IF CharAt(s, endIndex) = "\""
              THEN ScanObject(s, endIndex + 1, balance, ~inString, FALSE)
         ELSE IF ~inString /\ CharAt(s, endIndex) = "{"
              THEN ScanObject(s, endIndex + 1, balance + 1, inString, FALSE)
         ELSE IF ~inString /\ CharAt(s, endIndex) = "}"
              THEN ScanObject(s, endIndex + 1, balance - 1, inString, FALSE)
         ELSE ScanObject(s, endIndex + 1, balance, inString, FALSE)
    ELSE [balance |-> balance, endIndex |-> endIndex]

\* if (obj && typeof obj === 'object') objects.push(obj)
Keep(objects, p) ==
    IF p.ok /\ Truthy(p.v) /\ p.v.t \in {"obj", "arr"} THEN Append(objects, p.v)
    ELSE objects

\* The outer while loop works on [startIndex, loopCount, objects]; threw
\* tells that an exception left it, broken that its break was taken.
\* after the parse p of the object that ends at endIndex
ObjectParsed(s, endIndex, st, p) ==
    IF p.threw
    THEN [st EXCEPT !.threw = TRUE, !.loopCount = st.loopCount + 1]
    ELSE [st EXCEPT !.startIndex = IndexOf(s, <<"{">>, endIndex),
                    !.loopCount = st.loopCount + 1,
                    !.objects = Keep(st.objects, p)]

\* after the inner loop: a balanced object is parsed, an unbalanced rest
\* ends the outer loop
Scanned(s, st, sc) ==
    IF sc.balance = 0
    THEN ObjectParsed(s, sc.endIndex, st,
                      TryParse(Substring(s, st.startIndex, sc.endIndex)))
    ELSE [st EXCEPT !.broken = TRUE, !.loopCount = st.loopCount + 1]

RECURSIVE ExtractObjects(_, _, _)
\* the outer while loop, n iterations of it at most: nothing runs once the
\* loop condition fails or the loop was left; one iteration is the body; n
\* iterations are the first half of them, then the rest.  loopCount grows by
\* one in every iteration, so the loop is over after MAX_OBJECTS of them.
ExtractObjects(s, st, n) ==
    IF \/ n = 0
       \/ st.startIndex = -1
       \/ st.loopCount >= MAX_OBJECTS
       \/ st.threw
       \/ st.broken
    THEN st
    ELSE IF n = 1
    THEN Scanned(s, st, ScanObject(s, st.startIndex + 1, 1, FALSE, FALSE))
    ELSE ExtractObjects(s, ExtractObjects(s, st, n \div 2), n - (n \div 2))

\* if (objects.length > 0) return objects
Sequential(seq) ==
    [threw |-> seq.threw, ok |-> ~seq.threw /\ Len(seq.objects) > 0, v |-> JsArr(seq.objects)]

\* the attempts on the cleaned text: direct, [ ... ], the objects one by one
Attempts_p1(cleanedText) ==
    << TryParse(cleanedText),
       TryBetween(cleanedText, IndexOf(cleanedText, <<"[">>, 0),
                  LastIndexOf(cleanedText, <<"]">>)),
       Sequential(ExtractObjects(cleanedText,
                                 [startIndex |-> IndexOf(cleanedText, <<"{">>, 0),
                                  loopCount |-> 0, objects |-> <<>>,
                                  threw |-> FALSE, broken |-> FALSE],
                                 MAX_OBJECTS)) >>

\* services/geminiService.ts, the file with sequential object extraction
extractJson_p1(text) ==
    IF text = <<>> THEN Ret(JsNull)
    ELSE FirstParsed(Attempts_p1(PreClean(Trim(text))))
\* --------------------------------------------------- the fetch functions
\* A collaborator response: fails is TRUE where generateContent rejects
\* (network error, quota); text is response.text; links are the grounding
\* chunks' web.uri values that pass the filter, each [uri, host, valid],
\* valid telling whether new URL(uri) accepts it and host being its hostname.

Article4(title, summary, category, publishedAt) ==
    JsObj(<< <<"title">>, <<"summary">>, <<"category">>, <<"publishedAt">> >>,
          <<Lit(title), Lit(summary), Lit(category), Lit(publishedAt)>>)

\* host.replace('www.', '')
StripWww(host) ==
    LET i == IndexOf(host, <<"www.">>, 0) IN
    IF i = -1 THEN host
    ELSE Substring(host, 0, i) \o Substring(host, i + 1, Len(host))

\* validLinks[i], undefined off the end (and for the index NaN)
LinkAt(links, i) ==
    IF i >= 0 /\ i < Len(links) THEN Lit(links[i + 1].uri) ELSE Undefined
LinkValid(links, i) == i >= 0 /\ i < Len(links) /\ links[i + 1].valid
LinkHost(links, i) == JsStr(StripWww(links[i + 1].host))

\* i % n, NaN (here -1) when n is 0
Mod(i, n) == IF n = 0 THEN -1 ELSE i % n

\* { ...a } : the own enumerable properties of a
IndexKey(i) ==
    LET digits == <<"0", "1", "2", "3", "4", "5", "6", "7", "8", "9">> IN
    IF i < 10 THEN <<digits[i + 1]>> ELSE <<digits[(i \div 10) + 1], digits[(i % 10) + 1]>>
IndexKeys(n) == [i \in 1..n |-> IndexKey(i - 1)]
Spread(a) ==
    CASE a.t = "obj" -> a
      [] a.t = "arr" -> JsObj(IndexKeys(Len(a.items)), a.items)
      [] a.t = "str" -> JsObj(IndexKeys(Len(a.s)), [i \in 1..Len(a.s) |-> JsStr(<<a.s[i]>>)])
      [] OTHER -> JsObj(<<>>, <<>>)

\* a promise's settlement
Resolved(v) == [rejected |-> FALSE, value |-> v]
Rejected == [rejected |-> TRUE, value |-> <<>>]

\* try { ...body } catch (error) { return [placeholder]; } in an async function
OrPlaceholder(body, title, summary) ==
    IF body.threw THEN Resolved(<<Article4(title, summary, "General", "now")>>)
    ELSE Resolved(body.v)

\* --- the file with three parse attempts
\* lines 96-103: the parsed value as a list of elements
NormalizeData(data) ==
    IF IsArray(data) THEN data.items
    ELSE IF Truthy(data) /\ IsObject(data)
         THEN IF IsArray(Get(data, <<"news">>)) THEN Get(data, <<"news">>).items
              ELSE IF IsArray(Get(data, <<"articles">>)) THEN Get(data, <<"articles">>).items
              ELSE <<data>>
    ELSE <<>>

\* lines 112-120: the record of an element, url being its link
NewsFields(article, url, host) ==
    JsObj(<< <<"title">>, <<"summary">>, <<"category">>, <<"publishedAt">>,
             <<"sourceUrl">>, <<"sourceName">> >>,
          << OrElse(Get(article, <<"title">>), Lit("untitled")),
             OrElse(Get(article, <<"summary">>), JsStr(<<>>)),
             OrElse(Get(article, <<"category">>), Lit("General")),
             OrElse(Get(article, <<"publishedAt">>), Lit("recently")),
             url,
             IF Truthy(url) THEN host ELSE Undefined >>)

\* lines 111-121: one element to a record, i being index % validLinks.length;
\* reading a property of null throws, and so does new URL of an invalid link
NewsRecord(article, links, i) ==
    IF Nullish(article) THEN Threw
    ELSE IF Truthy(LinkAt(links, i)) /\ ~LinkValid(links, i) THEN Threw
    ELSE Ret(NewsFields(article, LinkAt(links, i),
                        IF LinkValid(links, i) THEN LinkHost(links, i) ELSE Undefined))

\* normalizedData.map(...)
NewsRecords(list, links) ==
    IF \E k \in 1..Len(list) : NewsRecord(list[k], links, Mod(k - 1, Len(links))).threw
    THEN Threw
    ELSE Ret([k \in 1..Len(list) |-> NewsRecord(list[k], links, Mod(k - 1, Len(links))).v])

\* lines 94-121: from the value extractJson returned
NewsFrom(data, links) ==
    IF data.threw THEN Threw ELSE NewsRecords(NormalizeData(data.v), links)

\* lines 61-132: the try block, and the catch that returns the placeholder
fetchNewsFromAgent(resp) ==
    OrPlaceholder(IF resp.fails THEN Threw
                  ELSE NewsFrom(extractJson(resp.text), resp.links),
                  "news-load-error", "try-again-later")

\* the record with the link of its own index, and none beyond the links
DeepRecord_byIndex(a, links, i) ==
    Put(Put(Spread(a), <<"sourceUrl">>, LinkAt(links, i)),
        <<"sourceName">>, Lit("Gemini 3 Pro Analysis"))

\* lines 161-165: the element with link i % validLinks.length
DeepRecord(a, links, i) ==
    Put(Put(Spread(a), <<"sourceUrl">>, LinkAt(links, Mod(i, Len(links)))),
        <<"sourceName">>, Lit("Gemini 3 Pro Analysis"))

\* Array.isArray(data) ? data : (data?.articles || [])
DeepArticles(v) ==
    IF IsArray(v) THEN v
    ELSE IF Nullish(v) THEN JsArr(<<>>)
    ELSE OrElse(Get(v, <<"articles">>), JsArr(<<>>))

\* articles.map(...): a value that is no array has no map
DeepRecords(arts, links) ==
    IF ~IsArray(arts) THEN Threw
    ELSE Ret([k \in 1..Len(arts.items) |-> DeepRecord(arts.items[k], links, k - 1)])

DeepFrom(data, links) ==
    IF data.threw THEN Threw ELSE DeepRecords(DeepArticles(data.v), links)

\* lines 135-176: the try block, and the catch that returns the placeholder
fetchDeepResearch(resp) ==
    OrPlaceholder(IF resp.fails THEN Threw
                  ELSE DeepFrom(extractJson(resp.text), resp.links),
                  "analysis-error", "model-problem")

\* lines 192-198: the record of the image, data being the parsed answer or {}
ImageFields(data, fallbackSummary, publishedAt) ==
    JsObj(<< <<"title">>, <<"summary">>, <<"category">>, <<"publishedAt">>, <<"sourceName">> >>,
          << OrElse(Get(data, <<"title">>), Lit("image-analysis")),
             OrElse(Get(data, <<"summary">>), fallbackSummary),
             OrElse(Get(data, <<"category">>), Lit("General")),
             Lit(publishedAt),
             Lit("Image Analysis") >>)

ImageFrom(got) ==
    IF got.threw THEN Rejected
    ELSE Resolved(ImageFields(OrElse(got.v, JsObj(<<>>, <<>>)), Lit("image-unreadable"), "now"))

\* lines 179-203: the catch rethrows
analyzeImage(resp) ==
    IF resp.fails THEN Rejected ELSE ImageFrom(extractJson(resp.text))

\* --- the file with sequential object extraction
\* lines 154-165: [placeholder, list] ; list is what .map is then called on
NormalizeData_p1(parsed) ==
    IF ~Truthy(parsed) \/ ~IsArray(parsed)
    THEN IF Truthy(parsed) /\ Truthy(Get(parsed, <<"news">>))
         THEN [placeholder |-> FALSE, list |-> Get(parsed, <<"news">>)]
         ELSE IF Truthy(parsed) /\ Truthy(Get(parsed, <<"articles">>))
         THEN [placeholder |-> FALSE, list |-> Get(parsed, <<"articles">>)]
         ELSE [placeholder |-> TRUE, list |-> JsArr(<<>>)]
    ELSE [placeholder |-> FALSE, list |-> parsed]

\* lines 171-180: url is validLinks[index] when the index has a link, and
\* undefined when it has none; new URL of an invalid link throws
NewsRecord_p1(article, links, index) ==
    IF Truthy(LinkAt(links, index)) /\ ~LinkValid(links, index) THEN Threw
    ELSE Ret(Put(Put(Spread(article), <<"sourceUrl">>, LinkAt(links, index)),
                 <<"sourceName">>,
                 IF Truthy(LinkAt(links, index)) THEN LinkHost(links, index)
                 ELSE Lit("web-source")))

\* articles.map(...)
NewsRecords_p1(list, links) ==
    IF ~IsArray(list) THEN Threw      \* articles.map is not a function
    ELSE IF \E k \in 1..Len(list.items) : NewsRecord_p1(list.items[k], links, k - 1).threw
    THEN Threw
    ELSE Ret([k \in 1..Len(list.items) |-> NewsRecord_p1(list.items[k], links, k - 1).v])

\* lines 151-180: from the value extractJson returned
NewsFrom_p1(data, links) ==
    IF data.threw THEN Threw
    ELSE IF NormalizeData_p1(data.v).placeholder
    THEN Ret(<<Article4("data-load-error", "invalid-model-answer", "General", "now")>>)
    ELSE NewsRecords_p1(NormalizeData_p1(data.v).list, links)

\* lines 102-191: the try block, and the catch that returns the placeholder
fetchNewsFromAgent_p1(resp) ==
    OrPlaceholder(IF resp.fails THEN Threw
                  ELSE NewsFrom_p1(extractJson_p1(resp.text), resp.links),
                  "communication-error", "check-connection")

\* lines 230-252: from the value extractJson returned
DeepFrom_p1(data, links) ==
    IF data.threw THEN Threw
    ELSE IF NormalizeData_p1(data.v).placeholder
    THEN Ret(<<Article4("analysis-unavailable", "cannot-process", "General", "now")>>)
    ELSE DeepRecords(NormalizeData_p1(data.v).list, links)

\* lines 194-263: the try block, and the catch that returns the placeholder
fetchDeepResearch_p1(resp) ==
    OrPlaceholder(IF resp.fails THEN Threw
                  ELSE DeepFrom_p1(extractJson_p1(resp.text), resp.links),
                  "deep-analysis-error", "deep-thinking-problem")

\* const data = Array.isArray(parsed) ? parsed[0] : parsed
FirstOf(v) ==
    IF IsArray(v) THEN IF Len(v.items) > 0 THEN v.items[1] ELSE Undefined
    ELSE v

\* lines 282-303: from the value extractJson returned for text
ImageFrom_p1(got, text) ==
    IF got.threw THEN Rejected
    ELSE IF Truthy(FirstOf(got.v))
    THEN Resolved(ImageFields(FirstOf(got.v), JsStr(Slice(text, 100)), "just-scanned"))
    ELSE Resolved(Article4("image-analysis", "image-unreadable", "General", "just-scanned"))

\* response.text || "{}"
TextOr(text) == IF text = <<>> THEN <<"{", "}">> ELSE text

\* lines 266-309: the catch rethrows
analyzeImage_p1(resp) ==
    IF resp.fails THEN Rejected
    ELSE ImageFrom_p1(extractJson_p1(TextOr(resp.text)), TextOr(resp.text))
\* ----------------------------------------------------------------------
\* App.tsx and AgentPanel.tsx
\* ----------------------------------------------------------------------
\* What the collaborator may answer to a request about topic
GoodLink == [uri |-> "https://www.example.com/a", host |-> <<"www.", "example.com">>,
             valid |-> TRUE]
Responses(topic) ==
    { [fails |-> TRUE, text |-> <<>>, links |-> <<>>],
      [fails |-> FALSE, links |-> <<GoodLink>>,
       text |-> <<"[", "{", "\"", "title", "\"", ":", "\"", topic, "\"", "}", "]">>],
      [fails |-> FALSE, text |-> <<"s", "o", "r", "r", "y">>, links |-> <<>>] }
Outcome(resp) ==
    IF resp.fails THEN "fails"
    ELSE IF Nullish(extractJson(resp.text).v) THEN "unparseable" ELSE "ok"

ImageResponses ==
    { [fails |-> TRUE, text |-> <<>>, links |-> <<>>],
      [fails |-> FALSE, text |-> <<"{", "\"", "title", "\"", ":", "\"", "photo", "\"", "}">>,
       links |-> <<>>] }

\* What the service functions make of each response of this model: the
\* settlements of fetchNewsFromAgent(topic), fetchDeepResearch(topic) and
\* analyzeImage(...) (App.tsx 491-493, 511) when the collaborator answers resp
AllResponses == UNION {Responses(topic) : topic \in Topics} \cup ImageResponses
Answers ==
    [resp \in AllResponses |->
        [news |-> fetchNewsFromAgent(resp), deep |-> fetchDeepResearch(resp),
         image |-> analyzeImage(resp), outcome |-> Outcome(resp)]]

\* Not a number: what arithmetic on undefined gives
NaN == -2
\* REFRESH_INTERVALS[refreshMode] (App.tsx 432): undefined, hence NaN in the
\* sum of line 433, for a mode that is no key of the table
Interval(mode) == IF mode \in DOMAIN REFRESH_INTERVALS THEN REFRESH_INTERVALS[mode] ELSE NaN
\* Date.now() + interval (App.tsx 433, 439)
After(at, interval) == IF interval = NaN THEN NaN ELSE at + interval
\* the delay setInterval(..., interval) runs with (App.tsx 435-441): an
\* undefined delay is 0, the callback is due again at once
Delay(interval) == IF interval = NaN THEN 0 ELSE interval

\* The remaining time without the clamp at 0
TimeRemaining_signed(next, at) == Ceil(next - at, 1000)

\* Math.max(0, Math.ceil((nextRefreshTime - now) / 1000))
TimeRemaining(next, at) == IF next = NaN THEN NaN ELSE Max(0, Ceil(next - at, 1000))

\* Variants of the agent-loop effect.  One that leaves the interval running
\* when the mode becomes manual:
AgentLoopEffect_noCancel(bt, bn, mode, topic, scanning) ==
    IF <<mode, topic, scanning>> = <<refreshMode, currentTopic, agentState.isScanning>>
    THEN [timers |-> bt, next |-> bn]
    ELSE IF mode # "manual"
    THEN [timers |-> {[period |-> Interval(mode), due |-> now + Interval(mode),
                       topic |-> topic, scanning |-> scanning]},
          next |-> now + Interval(mode)]
    ELSE [timers |-> bt, next |-> 0]

\* one that arms a new interval without clearing the one in refreshTimerRef:
AgentLoopEffect_stacking(bt, bn, mode, topic, scanning) ==
    IF <<mode, topic, scanning>> = <<refreshMode, currentTopic, agentState.isScanning>>
    THEN [timers |-> bt, next |-> bn]
    ELSE IF mode # "manual"
    THEN [timers |-> bt \cup {[period |-> Interval(mode), due |-> now + Interval(mode),
                               topic |-> topic, scanning |-> scanning]},
          next |-> now + Interval(mode)]
    ELSE [timers |-> {}, next |-> 0]

\* one whose dependencies leave out currentTopic:
AgentLoopEffect_staleTopic(bt, bn, mode, topic, scanning) ==
    IF <<mode, scanning>> = <<refreshMode, agentState.isScanning>>
    THEN [timers |-> bt, next |-> bn]
    ELSE IF mode # "manual"
    THEN [timers |-> {[period |-> Interval(mode), due |-> now + Interval(mode),
                       topic |-> topic, scanning |-> scanning]},
          next |-> now + Interval(mode)]
    ELSE [timers |-> {}, next |-> 0]

\* The agent-loop effect (App.tsx 428-449) after a commit that leaves the
\* interval timers bt and the next-fire time bn.  It runs when one of its
\* dependencies [refreshMode, currentTopic, agentState.isScanning] changed:
\* the timer in refreshTimerRef is cleared, and a timed mode arms a new one
\* whose callback closes over the committed topic and scanning flag.
AgentLoopEffect(bt, bn, mode, topic, scanning) ==
    IF <<mode, topic, scanning>> = <<refreshMode, currentTopic, agentState.isScanning>>
    THEN [timers |-> bt, next |-> bn]
    ELSE IF mode # "manual"
    THEN [timers |-> {[period |-> Delay(Interval(mode)),
                       due |-> now + Delay(Interval(mode)),
                       topic |-> topic, scanning |-> scanning]},
          next |-> After(now, Interval(mode))]
    ELSE [timers |-> {}, next |-> 0]

\* The countdown effect (AgentPanel.tsx 54-67), which runs when
\* [nextRefreshTime, refreshMode] changed
CountdownEffect(next, mode) ==
    IF <<next, mode>> = <<nextRefreshTime, refreshMode>>
    THEN [timeLeft |-> timeLeft, due |-> countdownDue, sampled |-> lastSampleAt]
    ELSE IF mode = "manual"
    THEN [timeLeft |-> 0, due |-> NoTimer, sampled |-> lastSampleAt]
    ELSE [timeLeft |-> TimeRemaining(next, now), due |-> now + COUNTDOWN_PERIOD,
          sampled |-> now]

\* The App state a handler works on
Cur ==
    [articles |-> articles, agentState |-> agentState, error |-> error,
     searchHistory |-> searchHistory, refreshMode |-> refreshMode,
     currentTopic |-> currentTopic, storage |-> storage,
     timers |-> refreshTimers, next |-> nextRefreshTime,
     pending |-> pending, reqCount |-> reqCount]

\* The commit of a handler's updates, then the effects
Commit(st, ev) ==
    LET loop == AgentLoopEffect(st.timers, st.next, st.refreshMode, st.currentTopic,
                                st.agentState.isScanning)
        cd == CountdownEffect(loop.next, st.refreshMode)
    IN /\ articles' = st.articles
       /\ agentState' = st.agentState
       /\ error' = st.error
       /\ searchHistory' = st.searchHistory
       /\ refreshMode' = st.refreshMode
       /\ currentTopic' = st.currentTopic
       /\ storage' = st.storage
       /\ pending' = st.pending
       /\ reqCount' = st.reqCount
       /\ refreshTimers' = loop.timers
       /\ nextRefreshTime' = loop.next
       /\ timeLeft' = cd.timeLeft
       /\ countdownDue' = cd.due
       /\ lastSampleAt' = cd.sampled
       /\ lastEvent' = [ev EXCEPT !.loopRan =
                            <<st.refreshMode, st.currentTopic, st.agentState.isScanning>>
                                # <<refreshMode, currentTopic, agentState.isScanning>>]

\* [topic, ...prev.filter(t => t !== topic)].slice(0, 10)
\* the topic put in front without removing its earlier entry
PushHistory_keepsDuplicates(prev, topic) == Slice(<<topic>> \o prev, HISTORY_LIMIT)

PushHistory(prev, topic) == Slice(<<topic>> \o Filter(prev, topic), HISTORY_LIMIT)

\* updateNews(topic, isDeepSearch) up to its await (App.tsx 472-493)
UpdateNewsStart(st, topic, deep) ==
    LET newH == PushHistory(st.searchHistory, topic) IN
    [st EXCEPT
        !.currentTopic = topic,
        !.agentState = [st.agentState EXCEPT
                           !.isScanning = TRUE,
                           !.statusMessage = IF deep THEN "analysing" ELSE "searching"],
        !.error = NoError,
        !.searchHistory = newH,
        !.storage = [st.storage EXCEPT !.novaNewsHistory = newH],
        !.pending = Append(st.pending,
                           [kind |-> IF deep THEN "deep" ELSE "search", topic |-> topic]),
        !.reqCount = st.reqCount + 1]

\* Variants of the end of updateNews.  One that leaves isScanning as it is:
UpdateNewsEnd_keepsFlag(st, k, settled) ==
    [st EXCEPT
        !.articles = settled.value,
        !.agentState = [st.agentState EXCEPT !.lastUpdated = now,
                                             !.statusMessage = "updated"],
        !.pending = Without(st.pending, k)]

\* one that also switches auto-refresh off:
UpdateNewsEnd_disarming(st, k, settled) ==
    [st EXCEPT
        !.articles = settled.value,
        !.agentState = [isScanning |-> FALSE, lastUpdated |-> now,
                        statusMessage |-> "updated"],
        !.refreshMode = "manual",
        !.pending = Without(st.pending, k)]

\* updateNews after its await (App.tsx 494-501)
UpdateNewsEnd(st, k, settled) ==
    IF settled.rejected
    THEN [st EXCEPT
             !.error = "data-load-error",
             !.agentState = [st.agentState EXCEPT !.isScanning = FALSE,
                                                  !.statusMessage = "error"],
             !.pending = Without(st.pending, k)]
    ELSE [st EXCEPT
             !.articles = settled.value,
             !.agentState = [isScanning |-> FALSE, lastUpdated |-> now,
                             statusMessage |-> "updated"],
             !.pending = Without(st.pending, k)]

CanStart == reqCount < MaxFetches /\ Len(pending) < MaxPending
\* What local storage may hold when the page loads
SavedModes == {"none"} \cup RefreshModes
\* What the key novaRefreshMode may hold when something other than
\* handleModeChange wrote it: getItem returns any string (App.tsx 401)
StoredModes == {"weekly", "rapid"}
\* a full history, as this program saved it: ten distinct topics
SavedHistories ==
    {<<"ai", InitialTopic, "h3", "h4", "h5", "h6", "h7", "h8", "h9", "h10">>}
\* What the user types into the search box
TypedTopics == {"ai"}

panelVars == <<confirmHistoryTopic, isDeepSearch, confirmTimeouts>>
clockVars == <<now, advances, panelEvents>>
serviceVars == <<response, result>>
NoResponse == [fails |-> FALSE, text |-> <<>>, links |-> <<>>]
NoResult == [fn |-> "", failed |-> FALSE, value |-> <<>>]

\* The state once the mount effects have run (App.tsx 393-449): the saved
\* preferences are loaded, updateNews(InitialTopic, false) is waiting for the
\* collaborator, and the agent loop is armed for the loaded mode.  The panel
\* is mounted (focus mode is off throughout this model).
Mounted(savedMode, savedHistory) ==
        LET mode == IF savedMode = "none" THEN DefaultRefreshMode ELSE savedMode
            hist == PushHistory(savedHistory, InitialTopic)
            armed == mode # "manual"
        IN /\ articles = <<>>
           /\ agentState = [isScanning |-> TRUE, lastUpdated |-> NoDate,
                            statusMessage |-> "searching"]
           /\ error = NoError
           /\ searchHistory = hist
           /\ refreshMode = mode
           /\ currentTopic = InitialTopic
           /\ nextRefreshTime = IF armed THEN After(StartTime, Interval(mode)) ELSE 0
           /\ refreshTimers =
                  IF armed
                  THEN {[period |-> Delay(Interval(mode)),
                         due |-> StartTime + Delay(Interval(mode)),
                         topic |-> InitialTopic, scanning |-> TRUE]}
                  ELSE {}
           /\ storage = [novaNewsHistory |-> hist,
                         novaRefreshMode |-> IF savedMode = "none" THEN "" ELSE savedMode]
           /\ confirmHistoryTopic = NoTopic
           /\ isDeepSearch = FALSE
           /\ timeLeft = IF armed
                         THEN TimeRemaining(After(StartTime, Interval(mode)), StartTime)
                         ELSE 0
           /\ countdownDue = IF armed THEN StartTime + COUNTDOWN_PERIOD ELSE NoTimer
           /\ confirmTimeouts = {}
           /\ now = StartTime
           /\ pending = <<[kind |-> "search", topic |-> InitialTopic]>>
           /\ reqCount = 1
           /\ lastEvent = Event("mount", "")
           /\ lastSampleAt = StartTime
           /\ advances = 0
           /\ panelEvents = 0
           /\ response = NoResponse
           /\ result = NoResult

Init == \E savedMode \in SavedModes, savedHistory \in SavedHistories :
            Mounted(savedMode, savedHistory)

\* handleSubmit (AgentPanel.tsx 81-86); the input and the submit button are
\* disabled while agentState.isScanning
Submit(topic) ==
    /\ ~agentState.isScanning
    /\ CanStart
    /\ Commit(UpdateNewsStart(Cur, topic, isDeepSearch), Event("submit", topic))
    /\ UNCHANGED <<panelVars, clockVars, serviceVars>>

\* a trending-topic button (AgentPanel.tsx 359-368), disabled while scanning
Trending(topic) ==
    /\ ~agentState.isScanning
    /\ CanStart
    /\ Commit(UpdateNewsStart(Cur, topic, FALSE), Event("trending", topic))
    /\ UNCHANGED <<panelVars, clockVars, serviceVars>>

ShownHistory == {searchHistory[i] : i \in 1..Min(Len(searchHistory), HISTORY_SHOWN)}

\* handleHistoryClick, first click on a topic (AgentPanel.tsx 136-139)
HistoryArm(topic) ==
    /\ topic \in ShownHistory
    /\ confirmHistoryTopic # topic
    /\ panelEvents' = panelEvents + 1
    /\ confirmHistoryTopic' = topic
    /\ confirmTimeouts' = confirmTimeouts \cup {[topic |-> topic, due |-> now + CONFIRM_TIMEOUT]}
    /\ lastEvent' = Event("historyArm", topic)
    /\ UNCHANGED <<articles, agentState, error, searchHistory, refreshMode, currentTopic,
                   nextRefreshTime, refreshTimers, storage, isDeepSearch, timeLeft,
                   countdownDue, now, pending, reqCount, lastSampleAt, advances, serviceVars>>

\* handleHistoryClick, click on the topic awaiting confirmation (133-135)
HistoryConfirm(topic) ==
    /\ topic \in ShownHistory
    /\ confirmHistoryTopic = topic
    /\ CanStart
    /\ Commit(UpdateNewsStart(Cur, topic, isDeepSearch), Event("historyConfirm", topic))
    /\ confirmHistoryTopic' = NoTopic
    /\ UNCHANGED <<isDeepSearch, confirmTimeouts, clockVars, serviceVars>>

\* the timeout of a first history click (AgentPanel.tsx 138)
ConfirmExpires(t) ==
    /\ t \in confirmTimeouts
    /\ t.due = now
    /\ confirmTimeouts' = confirmTimeouts \ {t}
    /\ confirmHistoryTopic' = IF confirmHistoryTopic = t.topic THEN NoTopic
                              ELSE confirmHistoryTopic
    /\ lastEvent' = Event("confirmExpires", t.topic)
    /\ UNCHANGED <<articles, agentState, error, searchHistory, refreshMode, currentTopic,
                   nextRefreshTime, refreshTimers, storage, isDeepSearch, timeLeft,
                   countdownDue, now, pending, reqCount, lastSampleAt, advances,
                   panelEvents, serviceVars>>

\* the header logo (App.tsx 539)
LogoClick ==
    /\ CanStart
    /\ Commit(UpdateNewsStart(Cur, LogoTopic, FALSE), Event("logo", LogoTopic))
    /\ UNCHANGED <<panelVars, clockVars, serviceVars>>

\* handleImageUpload up to the file read (App.tsx 504-516)
ImageUpload ==
    /\ CanStart
    /\ Commit([Cur EXCEPT
                  !.agentState = [agentState EXCEPT !.isScanning = TRUE,
                                                    !.statusMessage = "decoding-image"],
                  !.pending = Append(pending, [kind |-> "image", topic |-> NoTopic]),
                  !.reqCount = reqCount + 1],
              Event("image", ""))
    /\ UNCHANGED <<panelVars, clockVars, serviceVars>>

\* handleModeChange (App.tsx 458-461)
ModeChange(mode) ==
    /\ panelEvents < MaxPanelEvents
    /\ panelEvents' = panelEvents + 1
    /\ Commit([Cur EXCEPT !.refreshMode = mode,
                          !.storage = [storage EXCEPT !.novaRefreshMode = mode]],
              Event("mode", mode))
    /\ UNCHANGED <<panelVars, now, advances, serviceVars>>

\* the deep-search toggle (AgentPanel.tsx 310)
ToggleDeepSearch ==
    /\ panelEvents < MaxPanelEvents
    /\ panelEvents' = panelEvents + 1
    /\ isDeepSearch' = ~isDeepSearch
    /\ lastEvent' = Event("toggleDeep", "")
    /\ UNCHANGED <<articles, agentState, error, searchHistory, refreshMode, currentTopic,
                   nextRefreshTime, refreshTimers, storage, confirmHistoryTopic, timeLeft,
                   countdownDue, confirmTimeouts, now, pending, reqCount, lastSampleAt,
                   advances, serviceVars>>

\* onClearHistory (App.tsx 572), shown when the history is not empty
ClearHistory ==
    /\ Len(searchHistory) > 0
    /\ panelEvents < MaxPanelEvents
    /\ panelEvents' = panelEvents + 1
    /\ Commit([Cur EXCEPT !.searchHistory = <<>>], Event("clearHistory", ""))
    /\ UNCHANGED <<panelVars, now, advances, serviceVars>>
\* the collaborator answers a search or deep-research request: the rest of
\* updateNews runs (App.tsx 491-501)
FetchSettles(k, resp) ==
    /\ k \in 1..Len(pending)
    /\ pending[k].kind \in {"search", "deep"}
    /\ Commit(UpdateNewsEnd(Cur, k, IF pending[k].kind = "deep" THEN Answers[resp].deep
                                    ELSE Answers[resp].news),
              Event(pending[k].kind, Answers[resp].outcome))
    /\ UNCHANGED <<panelVars, clockVars, serviceVars>>

\* reader.onloadend with a result that is no string (App.tsx 509): nothing runs
ImageReadFails(k) ==
    /\ k \in 1..Len(pending)
    /\ pending[k].kind = "image"
    /\ Commit([Cur EXCEPT !.pending = Without(pending, k)], Event("imageRead", "no-string"))
    /\ UNCHANGED <<panelVars, clockVars, serviceVars>>

\* reader.onloadend with a data URL, then analyzeImage settles (App.tsx 510-513);
\* a rejection leaves the async callback and nothing handles it
ImageAnalysed(k, resp) ==
    /\ k \in 1..Len(pending)
    /\ pending[k].kind = "image"
    /\ LET settled == Answers[resp].image IN
       Commit(IF settled.rejected
              THEN [Cur EXCEPT !.pending = Without(pending, k)]
              ELSE [Cur EXCEPT
                       !.articles = <<settled.value>> \o articles,
                       !.agentState = [isScanning |-> FALSE, lastUpdated |-> now,
                                       statusMessage |-> "done"],
                       !.pending = Without(pending, k)],
              Event("imageAnalysed", Answers[resp].outcome))
    /\ UNCHANGED <<panelVars, clockVars, serviceVars>>

\* the interval t after this firing
Refired(t) == (refreshTimers \ {t}) \cup {[t EXCEPT !.due = t.due + t.period]}

\* the interval callback when its closure sees no scan (App.tsx 436-440)
RefreshTickFetch(t) ==
    /\ t \in refreshTimers
    /\ t.due = now
    /\ ~t.scanning
    /\ Len(pending) < MaxPending
    /\ Commit([UpdateNewsStart(Cur, t.topic, FALSE) EXCEPT
                  !.timers = Refired(t), !.next = now + t.period, !.reqCount = reqCount],
              Event("tick", "fetch"))
    /\ UNCHANGED <<panelVars, clockVars, serviceVars>>

\* the interval callback when its closure sees a scan: nothing runs
RefreshTickSkip(t) ==
    /\ t \in refreshTimers
    /\ t.due = now
    /\ t.scanning
    /\ Commit([Cur EXCEPT !.timers = Refired(t)], Event("tick", "skip"))
    /\ UNCHANGED <<panelVars, clockVars, serviceVars>>

\* d milliseconds pass and no refresh or confirmation timer is due before
\* they end.  The 1 s countdown timer (AgentPanel.tsx 59-65) fires at each of
\* its instants in the period: what is left is its last recomputation.
AdvanceTime(d) ==
    /\ advances < MaxAdvances
    /\ d > 0
    /\ \A t \in refreshTimers \cup confirmTimeouts : now + d <= t.due
    /\ now' = now + d
    /\ advances' = advances + 1
    /\ IF countdownDue # NoTimer /\ countdownDue <= now + d
       THEN LET last == countdownDue
                        + ((now + d - countdownDue) \div COUNTDOWN_PERIOD) * COUNTDOWN_PERIOD
            IN /\ timeLeft' = TimeRemaining(nextRefreshTime, last)
               /\ lastSampleAt' = last
               /\ countdownDue' = last + COUNTDOWN_PERIOD
       ELSE UNCHANGED <<timeLeft, lastSampleAt, countdownDue>>
    /\ lastEvent' = Event("advance", "")
    /\ UNCHANGED <<articles, agentState, error, searchHistory, refreshMode, currentTopic,
                   nextRefreshTime, refreshTimers, storage, confirmHistoryTopic,
                   isDeepSearch, confirmTimeouts, pending, reqCount, panelEvents,
                   serviceVars>>

Next ==
    \/ \E topic \in TypedTopics : Submit(topic)
    \/ \E topic \in TRENDING_TOPICS : Trending(topic)
    \/ \E topic \in Topics :
           /\ Cardinality(confirmTimeouts) < MaxConfirmTimers
           /\ panelEvents < MaxPanelEvents
           /\ HistoryArm(topic)
    \/ \E topic \in Topics : HistoryConfirm(topic)
    \/ \E t \in confirmTimeouts : ConfirmExpires(t)
    \/ LogoClick
    \/ ImageUpload
    \/ \E mode \in RefreshModes : ModeChange(mode)
    \/ ToggleDeepSearch
    \/ ClearHistory
    \/ \E k \in 1..Len(pending) : \E resp \in Responses(pending[k].topic) :
           FetchSettles(k, resp)
    \/ \E k \in 1..Len(pending) : ImageReadFails(k)
    \/ \E k \in 1..Len(pending), resp \in ImageResponses : ImageAnalysed(k, resp)
    \/ \E t \in refreshTimers : RefreshTickFetch(t)
    \/ \E t \in refreshTimers : RefreshTickSkip(t)
    \/ \E d \in {StepMs, LongWait}
                 \cup {t.due - now : t \in refreshTimers \cup confirmTimeouts} :
           AdvanceTime(d)

Spec == Init /\ [][Next]_vars

\* The program started over a local storage it did not write itself
LoadInit == \E savedMode \in StoredModes, savedHistory \in SavedHistories :
                Mounted(savedMode, savedHistory)
LoadSpec == LoadInit /\ [][Next]_vars

\* ----------------------------------------------------------------------
\* The service functions on their own: a response is drawn, and each
\* function of the two service files is applied to it.
\* ----------------------------------------------------------------------
\* The pieces a raw response text is made of
Fragments ==
    { <<"[">>, <<"]">>, <<"{">>, <<"}">>, <<",">>,
      <<"n", "u", "l", "l">>, <<"7">>, <<"\"">>,
      <<"{", "\"", "title", "\"", ":", "\"", "T", "\"", "}">>,
      <<"{", "\"", "category", "\"", ":", "\"", "Weather", "\"", "}">>,
      <<"[", "7", "]">>,
      <<"[", "{", "\"", "title", "\"", ":", "\"", "T", "\"", "}", ",",
             "{", "\"", "title", "\"", ":", "\"", "T", "\"", "}", "]">>,
      <<"{", "\"", "news", "\"", ":">>,
      FENCE, <<"j", "s", "o", "n", "\n">>, <<"s", "o", "r", "r", "y", " ">> }

RECURSIVE Texts(_)
\* the texts of at most n fragments
Texts(n) ==
    IF n = 0 THEN {<<>>}
    ELSE Texts(n - 1) \cup {t \o f : t \in Texts(n - 1), f \in Fragments}

\* the grounding links of a response: none, one good, two good, one new URL
\* rejects
LinkLists ==
    {<<>>, <<GoodLink>>,
     <<GoodLink, [uri |-> "https://news.example.org/b", host |-> <<"news.example.org">>,
                  valid |-> TRUE]>>,
     <<[uri |-> "not a url", host |-> <<>>, valid |-> FALSE]>>}

\* the App at rest, as far as the service functions are concerned
AppIdle ==
    /\ articles = <<>>
    /\ agentState = [isScanning |-> FALSE, lastUpdated |-> NoDate, statusMessage |-> ""]
    /\ error = NoError
    /\ searchHistory = <<>>
    /\ refreshMode = "manual"
    /\ currentTopic = InitialTopic
    /\ nextRefreshTime = 0
    /\ refreshTimers = {}
    /\ storage = [novaNewsHistory |-> <<>>, novaRefreshMode |-> ""]
    /\ confirmHistoryTopic = NoTopic
    /\ isDeepSearch = FALSE
    /\ timeLeft = 0
    /\ countdownDue = NoTimer
    /\ confirmTimeouts = {}
    /\ now = StartTime
    /\ pending = <<>>
    /\ reqCount = 0
    /\ lastEvent = Event("idle", "")
    /\ lastSampleAt = StartTime
    /\ advances = 0
    /\ panelEvents = 0

appVars ==
    <<articles, agentState, error, searchHistory, refreshMode, currentTopic, nextRefreshTime,
      refreshTimers, storage, confirmHistoryTopic, isDeepSearch, timeLeft, countdownDue,
      confirmTimeouts, now, pending, reqCount, lastEvent, lastSampleAt, advances,
      panelEvents>>

ServiceInit ==
    /\ AppIdle
    /\ response \in {[fails |-> TRUE, text |-> <<>>, links |-> <<>>]}
                      \cup [fails : {FALSE}, text : Texts(MaxFragments), links : LinkLists]
    /\ result = NoResult

\* the payload as a fenced code block, tag being json or nothing:
\* ```json ... ``` (part_002 line 31)
Fenced(payload, tag) == FENCE \o tag \o <<"\n">> \o payload \o <<"\n">> \o FENCE

\* what came out of extractJson: failed where it threw
Returned(fn, r) == [fn |-> fn, failed |-> r.threw, value |-> r.v]
\* what came out of an async function: failed where the promise rejected
Settled(fn, p) == [fn |-> fn, failed |-> p.rejected, value |-> p.value]

Apply(r) == result = NoResult /\ result' = r /\ UNCHANGED <<appVars, response>>

\* one call of one function of either service file on the response
ServiceNext ==
    \/ ~response.fails /\ Apply(Returned("extractJson", extractJson(response.text)))
    \/ ~response.fails /\ Apply(Returned("extractJson_p1", extractJson_p1(response.text)))
    \/ \E tag \in {<<>>, JSON_TAG} :
           /\ ~response.fails
           /\ Apply(Returned("extractJson of fenced",
                              extractJson(Fenced(response.text, tag))))
    \/ \E tag \in {<<>>, JSON_TAG} :
           /\ ~response.fails
           /\ Apply(Returned("extractJson_p1 of fenced",
                              extractJson_p1(Fenced(response.text, tag))))
    \/ Apply(Settled("fetchNewsFromAgent", fetchNewsFromAgent(response)))
    \/ Apply(Settled("fetchNewsFromAgent_p1", fetchNewsFromAgent_p1(response)))
    \/ Apply(Settled("fetchDeepResearch", fetchDeepResearch(response)))
    \/ Apply(Settled("fetchDeepResearch_p1", fetchDeepResearch_p1(response)))
    \/ Apply(Settled("analyzeImage", analyzeImage(response)))
    \/ Apply(Settled("analyzeImage_p1", analyzeImage_p1(response)))

ServiceSpec == ServiceInit /\ [][ServiceNext]_vars

\* The sequential extraction on its own: texts of at most MaxFragments pieces
\* out of objects, braces, quotes and prose, among them an object whose
\* string value holds braces and an escaped quote; and MAX_OBJECTS + 1 empty
\* objects in a row after nothing, prose, an object or a span that is no JSON
ScanTexts ==
    LET pieces == { <<>>, <<"{">>, <<"}">>, <<"\"">>, <<",">>,
                    <<"s", "o", "r", "r", "y", " ">>,
                    <<"{", "\"", "news", "\"", ":">>,
                    <<"{", "\"", "title", "\"", ":", "\"", "T", "\"", "}">>,
                    <<"{", "\"", "title", "\"", ":", "\"", "}", "{", "\\", "\"", "\"", "}">> }
        many == [i \in 1..2 * (MAX_OBJECTS + 1) |-> IF i % 2 = 1 THEN "{" ELSE "}"]
    IN {a \o b \o c : a \in pieces, b \in pieces, c \in pieces}
       \cup {a \o many : a \in { <<>>, <<",">>, <<"s", "o", "r", "r", "y", " ">>,
                                 <<"{", "\"", "news", "\"", ":", "}">>,
                                 <<"{", "\"", "title", "\"", ":", "\"", "T", "\"", "}">>,
                                 <<"{", "\"", "title", "\"", ":", "\"", "}", "{", "\\",
                                   "\"", "\"", "}">> }}

ScanInit ==
    /\ AppIdle
    /\ response \in [fails : {FALSE}, text : ScanTexts, links : {<<>>}]
    /\ result = NoResult

ScanNext == Apply(Returned("extractJson_p1", extractJson_p1(response.text)))

ScanSpec == ScanInit /\ [][ScanNext]_vars

\* The App under the assumption that the collaborator answers every search
\* and deep-research request
Settle ==
    \E k \in 1..Len(pending) : \E resp \in Responses(pending[k].topic) : FetchSettles(k, resp)

\* the page loaded with the rapid mode saved
LiveInit == Init /\ storage.novaRefreshMode = "rapid"

LiveSpec == LiveInit /\ [][Next]_vars /\ WF_vars(Settle)

\* The history buttons of the panel: the page loaded with the manual mode
\* saved, so that the confirmation timeouts are the only timers, and the user
\* clicks history entries while requests settle and time passes
PanelInit == Init /\ storage.novaRefreshMode = "manual"

PanelNext ==
    \/ \E topic \in Topics : panelEvents < MaxHistoryClicks /\ HistoryArm(topic)
    \/ \E topic \in Topics : HistoryConfirm(topic)
    \/ \E t \in confirmTimeouts : ConfirmExpires(t)
    \/ \E k \in 1..Len(pending) : \E resp \in Responses(pending[k].topic) :
           FetchSettles(k, resp)
    \/ \E d \in {StepMs} \cup {t.due - now : t \in confirmTimeouts} : AdvanceTime(d)

PanelSpec == PanelInit /\ [][PanelNext]_vars

\* ----------------------------------------------------------------------
\* The claims
\* ----------------------------------------------------------------------
\* lastEvent names the last step: "tick" with "fetch" or "skip" is an interval
\* callback that called updateNews or did nothing; "search" and "deep" are
\* the end of an updateNews cycle; "imageRead" and "imageAnalysed" the end of
\* an image cycle; "submit", "trending", "historyConfirm" and "logo" the user
\* actions that call updateNews.
\* C1: at any moment at most one fetch cycle (search, deep research or image
\* analysis) is in flight: what arrives while isScanning is true starts no
\* new fetch.
C1_AtMostOneFetchInFlight == Len(pending) <= 1

\* C2: every search or deep-research cycle that updateNews started ends, and
\* it ends with isScanning = FALSE, whatever the collaborator answered
\* (success, unparseable text, failure), given that the collaborator settles.
C2_CycleEndsNotScanning ==
    (\E k \in 1..Len(pending) : pending[k].kind \in {"search", "deep"})
        ~> (lastEvent.name \in {"search", "deep"} /\ ~agentState.isScanning)

C2_UnparseableCycleEnded ==
    /\ lastEvent.name = "search"
    /\ lastEvent.arg = "unparseable"
    /\ ~agentState.isScanning
    /\ articles = <<>>

\* C3: an image-analysis cycle that fails (analyzeImage rejects, or the file
\* read yields no string) resets isScanning to FALSE and surfaces an error.
C3_FailedImageCycleResets ==
    (\/ lastEvent.name = "imageRead"
     \/ lastEvent.name = "imageAnalysed" /\ lastEvent.arg = "fails")
        => (~agentState.isScanning /\ error # NoError)

\* C4: a refresh tick that fires while a fetch is in flight starts no fetch,
\* and a tick that fires when no fetch is in flight starts exactly one: a
\* tick does nothing only if a fetch is in flight, and the fetch a tick
\* starts is the only one in flight.
C4_TickFollowsFlight ==
    /\ (lastEvent.name = "tick" /\ lastEvent.arg = "skip") => Len(pending) > 0
    /\ (lastEvent.name = "tick" /\ lastEvent.arg = "fetch") => Len(pending) = 1

\* C5: in manual mode no refresh timer is active and nextRefreshTime is 0, so
\* no interval callback runs while the mode is manual, whatever time passes.
C5_ManualCancelsTimer ==
    /\ refreshMode = "manual" => (refreshTimers = {} /\ nextRefreshTime = 0)
    /\ lastEvent.name = "tick" => refreshMode # "manual"
    /\ refreshMode = "manual" =>
           ~ENABLED (\E t \in refreshTimers : RefreshTickFetch(t) \/ RefreshTickSkip(t))

C5_SwitchedToManual ==
    /\ lastEvent.name = "mode"
    /\ lastEvent.arg = "manual"
    /\ lastEvent.loopRan
    /\ refreshTimers = {}
    /\ nextRefreshTime = 0

\* C6: at most one refresh timer is active; one is active exactly when the
\* mode is not manual; its period is the interval of the current mode (rapid
\* 2 min, hourly 1 h, daily 24 h); and a step in which the effect armed left
\* one timer due at now + interval(mode), nextRefreshTime being that instant.
C6_OneTimerOfTheMode ==
    /\ Cardinality(refreshTimers) <= 1
    /\ (refreshTimers # {}) <=> (refreshMode # "manual")
    /\ \A t \in refreshTimers :
           t.period = CASE refreshMode = "rapid" -> 2 * 60 * 1000
                        [] refreshMode = "hourly" -> 60 * 60 * 1000
                        [] refreshMode = "daily" -> 24 * 60 * 60 * 1000
    /\ (lastEvent.loopRan /\ refreshMode # "manual") =>
           /\ nextRefreshTime = now + Interval(refreshMode)
           /\ \A t \in refreshTimers : t.due = now + Interval(refreshMode)

C6_RearmedLater ==
    /\ lastEvent.name = "mode"
    /\ lastEvent.loopRan
    /\ refreshMode = "hourly"
    /\ now > StartTime
    /\ nextRefreshTime = now + 3600000
    /\ Cardinality(refreshTimers) = 1

\* C7 as amended: a topic change while armed cancels the running timer and
\* arms a new one of the same period at that moment, so the next tick is due
\* interval(mode) after the change; the timer's callback always holds the
\* current topic, and the fetch a tick starts is for the current topic.
C7_TopicChangeRearms ==
    /\ \A t \in refreshTimers : t.topic = currentTopic
    /\ ( /\ lastEvent.name \in {"submit", "trending", "historyConfirm", "logo"}
         /\ lastEvent.loopRan
         /\ refreshMode # "manual" ) =>
           /\ refreshTimers = {[period |-> Interval(refreshMode),
                                due |-> now + Interval(refreshMode),
                                topic |-> currentTopic, scanning |-> TRUE]}
           /\ nextRefreshTime = now + Interval(refreshMode)
    /\ (lastEvent.name = "tick" /\ lastEvent.arg = "fetch") =>
           pending[Len(pending)].topic = currentTopic

C7_TickFetchedNewTopic ==
    /\ (lastEvent.name = "tick" /\ lastEvent.arg = "fetch")
    /\ currentTopic = "ai"
    /\ pending[Len(pending)].topic = "ai"
    /\ refreshMode = "rapid"

\* C7 as written: a topic change while armed does not re-time the ticks.  The
\* search box is enabled only after a cycle ended, at lastUpdated, which is
\* when the timer was armed last if the mode was not changed since: the
\* next tick stays due one interval after that.
C7_TopicChangeKeepsTicks ==
    (lastEvent.name = "submit" /\ refreshMode # "manual" /\ panelEvents = 0) =>
        \A t \in refreshTimers : t.due = agentState.lastUpdated + t.period

\* C8: the end of a failed cycle (the collaborator failed or returned
\* unparseable text) leaves isScanning FALSE and the mode unchanged; in a
\* timed mode one timer of the mode's period stays armed, re-armed at
\* now + interval(mode) when the end cleared the flag and else as it was.
C8_FailureKeepsCadence ==
    [][ ( /\ Len(pending') < Len(pending)
          /\ lastEvent'.name \in {"search", "deep"}
          /\ lastEvent'.arg \in {"fails", "unparseable"} )
        => /\ ~agentState'.isScanning
           /\ refreshMode' = refreshMode
           /\ refreshMode # "manual" =>
                  refreshTimers' =
                      IF agentState.isScanning
                      THEN {[period |-> Interval(refreshMode),
                             due |-> now + Interval(refreshMode),
                             topic |-> currentTopic, scanning |-> FALSE]}
                      ELSE refreshTimers
           /\ refreshMode # "manual" => Cardinality(refreshTimers') = 1 ]_vars

C8_FailedWhileArmed ==
    /\ lastEvent.name = "search"
    /\ lastEvent.arg = "fails"
    /\ lastEvent.loopRan
    /\ refreshMode = "rapid"
    /\ now > StartTime
    /\ ~agentState.isScanning
    /\ refreshTimers = {[period |-> 120000, due |-> now + 120000,
                         topic |-> currentTopic, scanning |-> FALSE]}

\* C9: the time left the panel shows is max(0, ceil((nextRefreshTime - t) /
\* 1000)) for its last sampling instant t; it is never negative; it is 0 in
\* manual mode; and in a timed mode the last sampling is less than a second old.
C9_TimeLeft ==
    /\ timeLeft >= 0
    /\ refreshMode = "manual" => timeLeft = 0
    /\ refreshMode # "manual" =>
           /\ lastSampleAt <= now
           /\ now - lastSampleAt < 1000
           /\ timeLeft = IF nextRefreshTime <= lastSampleAt THEN 0
                         ELSE ((nextRefreshTime - lastSampleAt) + 999) \div 1000

C9_ClampedAfterSkip ==
    /\ refreshMode # "manual"
    /\ nextRefreshTime < lastSampleAt
    /\ now > lastSampleAt
    /\ timeLeft = 0

\* C10: for every raw response text, extractJson returns without throwing,
\* and fetchNewsFromAgent and fetchDeepResearch resolve to a sequence of
\* article records (in both service files).
C10_NoThrowNoReject ==
    /\ result.fn \in {"extractJson", "extractJson_p1"} => ~result.failed
    /\ result.fn \in {"fetchNewsFromAgent", "fetchNewsFromAgent_p1",
                      "fetchDeepResearch", "fetchDeepResearch_p1"} =>
           /\ ~result.failed
           /\ \A i \in 1..Len(result.value) : result.value[i].t = "obj"

C10_ArrayOfNullGivesPlaceholder ==
    /\ result.fn = "fetchNewsFromAgent"
    /\ response.text = <<"[", "n", "u", "l", "l", "]">>
    /\ Len(result.value) = 1
    /\ Get(result.value[1], <<"title">>) = Lit("news-load-error")

\* C11: where the text holds a single valid array (one bracket pair whose
\* content parses) with prose around it, prose that may hold brackets and
\* braces of its own, extractJson of either service file returns that array.
C11_ArrayInProseRecovered ==
    result.fn \in {"extractJson", "extractJson_p1"} =>
        LET arrays == {p \in (0..Len(response.text)) \X (0..Len(response.text)) :
                          /\ p[1] < p[2]
                          /\ p[2] < Len(response.text)
                          /\ CharAt(response.text, p[1]) = "["
                          /\ CharAt(response.text, p[2]) = "]"
                          /\ JSONparse(Substring(response.text, p[1], p[2] + 1)).ok}
        IN  Cardinality(arrays) = 1 =>
                \A p \in arrays :
                    /\ ~result.failed
                    /\ result.value = JSONparse(Substring(response.text, p[1], p[2] + 1)).v

\* C12 as amended: for a payload that holds no backquote, extractJson of the
\* payload in a fenced block, tagged json or untagged, is extractJson of the
\* payload itself; in the file with sequential extraction this needs the
\* payload not to start with the word json, which that file strips from a
\* bare text only.
C12_FencedSameAsBarePayload ==
    /\ ( /\ result.fn = "extractJson of fenced"
         /\ \A i \in 1..Len(response.text) : response.text[i] # BQ ) =>
           (~result.failed /\ result.value = extractJson(response.text).v)
    /\ ( /\ result.fn = "extractJson_p1 of fenced"
         /\ \A i \in 1..Len(response.text) : response.text[i] # BQ
         /\ ~OccursAtCI(Trim(response.text), JSON_TAG, 0) ) =>
           (~result.failed /\ result.value = extractJson_p1(response.text).v)

C12_FencedNumberRecovered ==
    /\ result.fn = "extractJson of fenced"
    /\ response.text = <<"7">>
    /\ ~result.failed
    /\ result.value = JsNum(7)

\* C12 as written: for any payload, extractJson of the payload in a fenced
\* block, tagged json or untagged, is extractJson of the payload itself.
C12_FencedSameAsBare ==
    /\ result.fn = "extractJson of fenced" =>
           (~result.failed /\ result.value = extractJson(response.text).v)
    /\ result.fn = "extractJson_p1 of fenced" =>
           (~result.failed /\ result.value = extractJson_p1(response.text).v)

\* C13: where the text is two balanced objects back to back, with no array
\* around them, followed by garbage (text without brackets or an opening
\* brace), extractJson returns the two objects, in source order.
C13_TwoObjectsRecovered ==
    result.fn \in {"extractJson", "extractJson_p1"} =>
        \A i, j \in 1..Len(response.text) :
            ( /\ i < j
              /\ j < Len(response.text)
              /\ CharAt(response.text, 0) = "{"
              /\ CharAt(response.text, i - 1) = "}"
              /\ CharAt(response.text, i) = "{"
              /\ CharAt(response.text, j - 1) = "}"
              /\ \A k \in j..(Len(response.text) - 1) :
                     CharAt(response.text, k) \notin {"[", "]", "{"}
              /\ JSONparse(Substring(response.text, 0, i)).ok
              /\ JSONparse(Substring(response.text, i, j)).ok ) =>
                /\ ~result.failed
                /\ result.value = JsArr(<<JSONparse(Substring(response.text, 0, i)).v,
                                          JSONparse(Substring(response.text, i, j)).v>>)

\* C14: where the text is one or two closed objects followed by a final
\* object that is never closed (an opening brace with no closing brace and
\* no bracket after it), extractJson does not throw and returns the closed
\* objects in order (a single closed object may come back on its own).
C14_ClosedObjectsBeforeTruncation ==
    result.fn \in {"extractJson", "extractJson_p1"} =>
        \A i, j \in 1..Len(response.text) :
            ( /\ i <= j
              /\ j < Len(response.text)
              /\ CharAt(response.text, 0) = "{"
              /\ CharAt(response.text, i - 1) = "}"
              /\ CharAt(response.text, j - 1) = "}"
              /\ CharAt(response.text, j) = "{"
              /\ \A k \in (j + 1)..(Len(response.text) - 1) :
                     CharAt(response.text, k) \notin {"[", "]", "{", "}"}
              /\ JSONparse(Substring(response.text, 0, i)).ok
              /\ i < j => JSONparse(Substring(response.text, i, j)).ok ) =>
                /\ ~result.failed
                /\ IF i < j
                   THEN result.value =
                            JsArr(<<JSONparse(Substring(response.text, 0, i)).v,
                                    JSONparse(Substring(response.text, i, j)).v>>)
                   ELSE result.value \in
                            {JSONparse(Substring(response.text, 0, i)).v,
                             JsArr(<<JSONparse(Substring(response.text, 0, i)).v>>)}

\* C15: every record in articles, whichever of fetchNewsFromAgent,
\* fetchDeepResearch and analyzeImage it came from, has title, summary,
\* category and publishedAt defined.
C15_ArticlesHaveAllFields ==
    \A i \in 1..Len(articles) :
        \A key \in {<<"title">>, <<"summary">>, <<"category">>, <<"publishedAt">>} :
            Get(articles[i], key) # Undefined

\* C16: the category of every record the fetch functions return is one of
\* the nine labels; a missing category and one outside the set are General.
C16_CategoryIsALabel ==
    ( /\ result.fn \in {"fetchNewsFromAgent", "fetchNewsFromAgent_p1",
                         "fetchDeepResearch", "fetchDeepResearch_p1"}
      /\ ~result.failed ) =>
        \A i \in 1..Len(result.value) :
            Get(result.value[i], <<"category">>) \in
                {Lit(label) : label \in {"Politics", "Technology", "Sports", "Economy",
                                         "Health", "Entertainment", "Science", "World",
                                         "General"}}

\* C17: where extractJson yields null for the response text, both
\* fetchNewsFromAgent and fetchDeepResearch resolve to exactly one record
\* (the placeholder), never to an empty sequence, and do not reject.
C17_NullGivesOnePlaceholder ==
    /\ ( /\ result.fn \in {"fetchNewsFromAgent", "fetchDeepResearch"}
         /\ ~response.fails
         /\ extractJson(response.text) = Ret(JsNull) ) =>
           (~result.failed /\ Len(result.value) = 1)
    /\ ( /\ result.fn \in {"fetchNewsFromAgent_p1", "fetchDeepResearch_p1"}
         /\ ~response.fails
         /\ extractJson_p1(response.text) = Ret(JsNull) ) =>
           (~result.failed /\ Len(result.value) = 1)

\* C18: after a search or deep-research cycle in which the collaborator
\* failed, articles holds a single placeholder record and the error banner
\* has a message.
C18_CollaboratorFailureShowsBanner ==
    (lastEvent.name \in {"search", "deep"} /\ lastEvent.arg = "fails") =>
        (Len(articles) = 1 /\ error # NoError)

C20_StorageFollowsMemory ==
    lastEvent.name \in {"submit", "trending", "historyConfirm", "logo",
                        "clearHistory", "mode"} =>
        /\ storage.novaNewsHistory = searchHistory
        /\ lastEvent.name = "mode" => storage.novaRefreshMode = refreshMode

\* C21: lastUpdated is the time of the last successful completion: a cycle
\* that ends in a collaborator failure or in an unparseable response leaves
\* it as it was.
C21_FailedCycleKeepsLastUpdated ==
    [][ ( /\ lastEvent'.name \in {"search", "deep"}
          /\ lastEvent'.arg \in {"fails", "unparseable"} )
        => agentState'.lastUpdated = agentState.lastUpdated ]_vars

\* C22: at most one confirmation timer is live, and when an expiry clears the
\* topic awaiting confirmation, four seconds have passed since the last click
\* on it: no timer armed by a later click on that topic is still running.
C22_OneConfirmTimerFullWait ==
    [][ /\ Cardinality(confirmTimeouts') <= 1
        /\ ( /\ lastEvent'.name = "confirmExpires"
             /\ confirmHistoryTopic # NoTopic
             /\ confirmHistoryTopic' = NoTopic )
           => ~\E t \in confirmTimeouts' : t.topic = confirmHistoryTopic ]_vars

\* C23: for plain search results the links are assigned by matching index
\* only: record i (from 0) of a list that is no placeholder gets link i when
\* there are more than i links, and has no sourceUrl otherwise.
C23_PlainLinksByIndexOnly ==
    (/\ result.fn \in {"fetchNewsFromAgent", "fetchNewsFromAgent_p1"}
     /\ ~result.failed
     /\ ~response.fails) =>
        \A k \in 1..Len(result.value) :
            LET title == Get(result.value[k], <<"title">>) IN
            title \notin {Lit("news-load-error"), Lit("communication-error"),
                          Lit("data-load-error")} =>
                Get(result.value[k], <<"sourceUrl">>) = LinkAt(response.links, k - 1)

\* C24: for deep-research results record i (from 0) gets link i mod the number
\* of links, so every record of a list that is no placeholder has a sourceUrl
\* when there is a link; with no link no record has one, and nothing throws:
\* the function resolves.
C24_DeepLinksCycle ==
    (/\ result.fn \in {"fetchDeepResearch", "fetchDeepResearch_p1"}
     /\ ~response.fails) =>
        /\ ~result.failed
        /\ \A k \in 1..Len(result.value) :
               LET title == Get(result.value[k], <<"title">>)
                   n == Len(response.links)
               IN title \notin {Lit("analysis-error"), Lit("deep-analysis-error"),
                                Lit("analysis-unavailable")} =>
                      Get(result.value[k], <<"sourceUrl">>) =
                          IF n = 0 THEN Undefined
                          ELSE Lit(response.links[((k - 1) % n) + 1].uri)

C24_ThirdRecordGetsFirstLink ==
    /\ result.fn = "fetchDeepResearch_p1"
    /\ Len(response.links) = 2
    /\ Len(result.value) = 3
    /\ Get(result.value[2], <<"sourceUrl">>) = Lit(response.links[2].uri)
    /\ Get(result.value[3], <<"sourceUrl">>) = Lit(response.links[1].uri)

\* C25: when the parsed value is an object and no array, a nested array under
\* "news" or "articles" is the record sequence (one record per element), and
\* an object with neither is wrapped: one record, made from that object.  For
\* the plain-search and the deep-research function alike.
C25_ObjectUnwrappedOrWrapped ==
    (/\ result.fn \in {"fetchNewsFromAgent", "fetchDeepResearch",
                       "fetchNewsFromAgent_p1", "fetchDeepResearch_p1"}
     /\ ~response.fails
     /\ \A k \in 1..Len(response.links) : response.links[k].valid) =>
        LET data == IF result.fn \in {"fetchNewsFromAgent", "fetchDeepResearch"}
                    THEN extractJson(response.text).v
                    ELSE extractJson_p1(response.text).v
            news == Get(data, <<"news">>)
            arts == Get(data, <<"articles">>)
        IN IsObject(data) =>
               /\ ~result.failed
               /\ Len(result.value) =
                      IF IsArray(news) THEN Len(news.items)
                      ELSE IF IsArray(arts) THEN Len(arts.items)
                      ELSE 1
               /\ (~IsArray(news) /\ ~IsArray(arts)) =>
                      Get(result.value[1], <<"title">>)
                          \in {Get(data, <<"title">>), Lit("untitled")}

RECURSIVE TopLevelObjects(_, _, _)
\* The top-level objects of a text as JSON.parse reads them, n spans at
\* most: each starts at the next "{" and ends where the parser's value ends.
\* The span {"news":} is balanced and no JSON: it is passed over.  ok turns
\* FALSE when some other "{" starts no object.
TopLevelObjects(s, st, n) ==
    IF n = 0 \/ ~st.ok \/ IndexOf(s, <<"{">>, st.from) = -1 THEN st
    ELSE IF n = 1
    THEN LET a == IndexOf(s, <<"{">>, st.from) IN
         IF ParseValue(s, a).ok
         THEN [from |-> ParseValue(s, a).i, ok |-> TRUE,
               objs |-> Append(st.objs, ParseValue(s, a).v)]
         ELSE IF OccursAt(s, <<"{", "\"", "news", "\"", ":", "}">>, a)
         THEN [st EXCEPT !.from = a + 6]
         ELSE [st EXCEPT !.ok = FALSE]
    ELSE TopLevelObjects(s, TopLevelObjects(s, st, n \div 2), n - (n \div 2))

\* C26: when the direct parse and the bracket pair give nothing, the
\* sequential extraction returns the top-level objects of the text in order,
\* those of the first 50 spans: braces and escaped quotes inside strings do
\* not end a span, the scan resumes at the first "{" after a span, and a span
\* that does not parse is passed over.
C26_SequentialTakesTopLevelObjects ==
    (/\ result.fn = "extractJson_p1"
     /\ IndexOf(response.text, FENCE, 0) = -1
     /\ ~OccursAtCI(Trim(response.text), JSON_TAG, 0)) =>
        LET s == Trim(response.text)
            top == TopLevelObjects(s, [from |-> 0, ok |-> TRUE, objs |-> <<>>], MAX_OBJECTS)
        IN (/\ top.ok
            /\ Len(top.objs) > 0
            /\ ~JSONparse(s).ok
            /\ ~TryBetween(s, IndexOf(s, <<"[">>, 0), LastIndexOf(s, <<"]">>)).ok) =>
               /\ ~result.failed
               /\ result.value = JsArr(top.objs)

C26_BracesInStringThenFiftyTaken ==
    /\ result.fn = "extractJson_p1"
    /\ Len(response.text) = 12 + 2 * (MAX_OBJECTS + 1)
    /\ result.value.t = "arr"
    /\ Len(result.value.items) = MAX_OBJECTS
    /\ Get(result.value.items[1], <<"title">>) = JsStr(<<"}", "{", "\"">>)
    /\ result.value.items[2] = JsObj(<<>>, <<>>)

\* C27: when fetch cycles overlap and every request has settled, the
\* articles shown are those of the most recently requested topic,
\* currentTopic: a parsed answer that has just been put up, with nothing
\* left outstanding, is the answer for currentTopic.
C27_LatestRequestWins ==
    (/\ lastEvent.name \in {"search", "deep"}
     /\ lastEvent.arg = "ok"
     /\ Len(pending) = 0) =>
        \A k \in 1..Len(articles) : Get(articles[k], <<"title">>) = Lit(currentTopic)

\* C28: isScanning is TRUE in every state in which a collaborator request
\* (search, deep research or image analysis) is outstanding.
C28_ScanningWhileOutstanding == Len(pending) > 0 => agentState.isScanning

C30_NextRefreshIsNextTick ==
    refreshMode # "manual" =>
        \A t \in refreshTimers :
            /\ t.due = nextRefreshTime
            /\ ~(timeLeft = 0 /\ t.due - now = t.period)

====
